---- MODULE Spec2Model ----
(***************************************************************************)
(* tegamino: the similarity hashing of recipes (Recipe.cook and            *)
(* Recipe.compareTo of src/src/Recipe.js) together with the part of the    *)
(* builder (RecipeStep) that produces the data they read.                  *)
(***************************************************************************)
EXTENDS Integers, Sequences, FiniteSets, TLC

VARIABLES recipes, ret, buckets, wire, decoded

vars == <<recipes, ret, buckets, wire, decoded>>

(***************************************************************************)
(* JavaScript values.  Every value is a record tagged with its type, so    *)
(* that null, undefined, strings, numbers and objects can sit in the same  *)
(* field.  Text produced by the codec is a sequence of characters.         *)
(***************************************************************************)
Undefined == [t |-> "undefined"]

Null == [t |-> "null"]

Str(s) == [t |-> "string", s |-> s]

Num(n) == [t |-> "number", n |-> n]

Text(chars) == [t |-> "string", chars |-> chars]

\* a number that is not an integer (1.5 is Frac(3, 2))
Frac(p, q) == [t |-> "number", p |-> p, q |-> q]

\* the number NaN
NaN == [t |-> "number", nan |-> TRUE]

TypeError == [t |-> "error", name |-> "TypeError", message |-> "Cannot read properties of undefined"]

RangeError == [t |-> "error", name |-> "RangeError", message |-> "Invalid array length"]

DecodeError == [t |-> "error", name |-> "Error", message |-> "Invalid hash format: unable to decompress"]

LengthMismatchError == [t |-> "error", name |-> "Error", message |-> "Hashes must be of equal length"]

\* JavaScript truthiness, as used by `if (x)`
Truthy(v) ==
  /\ v.t \notin {"undefined", "null"}
  /\ v # Str("")
  /\ v # Text(<<>>)
  /\ v # Num(0)
  /\ v # NaN

(***************************************************************************)
(* Sequence helpers.                                                       *)
(***************************************************************************)
\* a sequence given by a rule, written out element by element
Strict(s) == s \o <<>>

\* the concatenation of a sequence of sequences (Array.prototype.join(''),
\* the effect of nested forEach loops), by halves to keep the evaluation shallow
RECURSIVE Flatten(_)
Flatten(ss) ==
  IF ss = <<>> THEN <<>>
  ELSE IF Len(ss) = 1 THEN ss[1]
  ELSE Flatten(SubSeq(ss, 1, Len(ss) \div 2)) \o Flatten(SubSeq(ss, (Len(ss) \div 2) + 1, Len(ss)))

Abs(x) == IF x < 0 THEN -x ELSE x

\* the sum of the second components of a set of pairs
RECURSIVE SumSet(_)
SumSet(ps) ==
  IF ps = {} THEN 0
  ELSE LET p == CHOOSE q \in ps : TRUE IN p[2] + SumSet(ps \ {p})

RECURSIVE SumSeq(_)
SumSeq(s) ==
  IF s = <<>> THEN 0
  ELSE IF Len(s) = 1 THEN s[1]
  ELSE SumSeq(SubSeq(s, 1, Len(s) \div 2)) + SumSeq(SubSeq(s, (Len(s) \div 2) + 1, Len(s)))

(***************************************************************************)
(* Hexadecimal text: Number.prototype.toString(16), String.padStart,       *)
(* Buffer.from(s, 'hex'), Buffer.toString('hex'), parseInt(s, 16).         *)
(***************************************************************************)
HexDigits == <<"0", "1", "2", "3", "4", "5", "6", "7", "8", "9", "a", "b", "c", "d", "e", "f">>

HexValue == [c \in {HexDigits[i] : i \in 1..16} |-> (CHOOSE i \in 1..16 : HexDigits[i] = c) - 1]

RECURSIVE ToString16(_)
ToString16(n) ==
  IF n < 16 THEN <<HexDigits[n + 1]>>
  ELSE ToString16(n \div 16) \o <<HexDigits[(n % 16) + 1]>>

PadStart2(s) == IF Len(s) < 2 THEN [i \in 1..(2 - Len(s)) |-> "0"] \o s ELSE s

\* parseInt(s, 16) of a string of hexadecimal digits
RECURSIVE ParseInt16(_)
ParseInt16(s) ==
  IF s = <<>> THEN 0
  ELSE 16 * ParseInt16(SubSeq(s, 1, Len(s) - 1)) + HexValue[s[Len(s)]]

\* Buffer.from(hexString, 'hex'): one byte per complete pair of digits, a
\* trailing odd digit is dropped
BufferFromHex(hexString) ==
  Strict([i \in 1..(Len(hexString) \div 2) |->
            16 * HexValue[hexString[2 * i - 1]] + HexValue[hexString[2 * i]]])

\* buffer.toString('hex'): two digits per byte
BufferToHex(bytes) ==
  Strict([k \in 1..(2 * Len(bytes)) |->
            IF k % 2 = 1 THEN HexDigits[(bytes[(k + 1) \div 2] \div 16) + 1]
            ELSE HexDigits[(bytes[k \div 2] % 16) + 1]])

(***************************************************************************)
(* Base64: buffer.toString('base64') and Buffer.from(s, 'base64').         *)
(***************************************************************************)
Base64Alphabet ==
  <<"A", "B", "C", "D", "E", "F", "G", "H", "I", "J", "K", "L", "M", "N", "O", "P",
    "Q", "R", "S", "T", "U", "V", "W", "X", "Y", "Z", "a", "b", "c", "d", "e", "f",
    "g", "h", "i", "j", "k", "l", "m", "n", "o", "p", "q", "r", "s", "t", "u", "v",
    "w", "x", "y", "z", "0", "1", "2", "3", "4", "5", "6", "7", "8", "9", "+", "/">>

Base64Chars == {Base64Alphabet[i] : i \in 1..64} \cup {"-", "_"}

\* the 6-bit value of a legal character; "-" and "_" are the URL-safe 62, 63
Unbase64 ==
  [c \in Base64Chars |->
     IF c = "-" THEN 62
     ELSE IF c = "_" THEN 63
     ELSE (CHOOSE i \in 1..64 : Base64Alphabet[i] = c) - 1]

BufferToBase64(bytes) ==
  LET n == Len(bytes)
      Byte(i) == IF i <= n THEN bytes[i] ELSE 0
      Group(g) ==
        LET b1 == Byte(3 * g - 2)
            b2 == Byte(3 * g - 1)
            b3 == Byte(3 * g)
            c1 == Base64Alphabet[(b1 \div 4) + 1]
            c2 == Base64Alphabet[((b1 % 4) * 16 + (b2 \div 16)) + 1]
            c3 == IF 3 * g - 1 <= n
                  THEN Base64Alphabet[((b2 % 16) * 4 + (b3 \div 64)) + 1] ELSE "="
            c4 == IF 3 * g <= n THEN Base64Alphabet[(b3 % 64) + 1] ELSE "="
        IN <<c1, c2, c3, c4>>
      groups == (n + 2) \div 3
  IN Flatten(Strict([g \in 1..groups |-> Group(g)]))

\* Node's decoder: characters outside the alphabet are skipped, "=" ends
\* the input, every 4 sextets give 3 bytes and a final 2 or 3 sextets give
\* 1 or 2 bytes
BufferFromBase64(chars) ==
  LET stops == {i \in 1..Len(chars) : chars[i] = "="}
      end == IF stops = {} THEN Len(chars)
             ELSE (CHOOSE i \in stops : \A j \in stops : i <= j) - 1
      legal == SelectSeq(SubSeq(chars, 1, end), LAMBDA c : c \in Base64Chars)
      s == Strict([i \in 1..Len(legal) |-> Unbase64[legal[i]]])
      n == (Len(s) * 6) \div 8
      ByteAt(k) ==
        LET g == (k - 1) \div 3
            r == (k - 1) % 3
        IN IF r = 0 THEN s[4 * g + 1] * 4 + (s[4 * g + 2] \div 16)
           ELSE IF r = 1 THEN (s[4 * g + 2] % 16) * 16 + (s[4 * g + 3] \div 4)
           ELSE (s[4 * g + 3] % 4) * 64 + s[4 * g + 4]
  IN Strict([k \in 1..n |-> ByteAt(k)])

(***************************************************************************)
(* gzip: gzipSync and gunzipSync.  The member is a 10 byte header, the     *)
(* data in one stored deflate block, and the trailer with the check value  *)
(* and the length of the data.                                             *)
(***************************************************************************)
LittleEndian(x, n) == [i \in 1..n |-> (x \div (256 ^ (i - 1))) % 256]

FromLittleEndian(bytes) ==
  SumSeq([i \in 1..Len(bytes) |-> bytes[i] * (256 ^ (i - 1))])

GzipHeader == <<31, 139, 8, 0, 0, 0, 0, 0, 0, 3>>

\* the check value of the trailer
Checksum(bytes) ==
  SumSeq(Strict([i \in 1..Len(bytes) |-> (i * (bytes[i] + 1)) % 65521]))

gzipSync(bytes) ==
  GzipHeader
    \o <<1>> \o LittleEndian(Len(bytes), 2) \o LittleEndian(65535 - Len(bytes), 2)
    \o bytes
    \o LittleEndian(Checksum(bytes), 4)
    \o LittleEndian(Len(bytes), 4)

\* the bytes of the member, or a thrown error
gunzipSync(bytes) ==
  LET Failed == [ok |-> FALSE, data |-> <<>>]
  IN IF Len(bytes) < 15 THEN Failed
     ELSE IF SubSeq(bytes, 1, 4) # SubSeq(GzipHeader, 1, 4) THEN Failed
     ELSE IF bytes[11] # 1 THEN Failed
     ELSE
       LET len == FromLittleEndian(SubSeq(bytes, 12, 13))
           nlen == FromLittleEndian(SubSeq(bytes, 14, 15))
       IN IF len + nlen # 65535 THEN Failed
          ELSE IF Len(bytes) < 15 + len + 8 THEN Failed
          ELSE
            LET data == SubSeq(bytes, 16, 15 + len)
                check == SubSeq(bytes, 16 + len, 19 + len)
                isize == SubSeq(bytes, 20 + len, 23 + len)
            IN IF check # LittleEndian(Checksum(data), 4) \/ isize # LittleEndian(len, 4)
               THEN Failed
               ELSE [ok |-> TRUE, data |-> data]

(***************************************************************************)
(* The histogram codec of cook (encode) and compareTo (decode).            *)
(***************************************************************************)
\* cook: buckets.map((count) => count.toString(16).padStart(2, '0')).join('')
HexString(bs) == Flatten(Strict([i \in 1..Len(bs) |-> PadStart2(ToString16(bs[i]))]))

\* cook: gzipSync(Buffer.from(hexString, 'hex')).toString('base64')
EncodeBuckets(bs) == BufferToBase64(gzipSync(BufferFromHex(HexString(bs))))

\* compareTo: decompressHash, gunzipSync(Buffer.from(hash, 'base64')).toString('hex')
decompressHash(hash) ==
  IF hash.t # "string" THEN [ok |-> FALSE, hex |-> <<>>]
  ELSE LET r == gunzipSync(BufferFromBase64(hash.chars))
       IN IF r.ok THEN [ok |-> TRUE, hex |-> BufferToHex(r.data)]
          ELSE [ok |-> FALSE, hex |-> <<>>]

\* compareTo: the counts read from the hex text, parseInt(substr(i, 2), 16)
CountsOf(hex) ==
  Strict([k \in 1..(Len(hex) \div 2) |-> ParseInt16(SubSeq(hex, 2 * k - 1, 2 * k))])

(***************************************************************************)
(* Strings: toString, toLowerCase and the MD5 digest of a token.           *)
(***************************************************************************)
\* String.prototype.toLowerCase on the vocabulary of the model
ToLowerCase(s) ==
  CASE s = "Latte" -> "latte"
    [] s = "Espresso" -> "espresso"
    [] s = "Sugar" -> "sugar"
    [] s = "Cookie" -> "cookie"
    [] s = "Tazza" -> "tazza"
    [] s = "equipmentSetting" -> "equipmentsetting"
    [] s = "Golden Brown" -> "golden brown"
    [] s = "NaN" -> "nan"
    [] OTHER -> s

\* Number.prototype.toString() / String.prototype.toString()
ToStringJS(v) ==
  IF v.t = "string" THEN v.s
  ELSE IF v = NaN THEN "NaN"
  ELSE CASE v.n = 0 -> "0"
         [] v.n = 1 -> "1"
         [] v.n = 2 -> "2"
         [] v.n = 3 -> "3"
         [] v.n = 4 -> "4"
         [] v.n = 5 -> "5"

\* crypto.createHash('md5').update(token).digest('hex').substr(0, 8)
Md5Prefix(token) ==
  CASE token = "latte" -> <<"c", "1", "8", "c", "8", "1", "3", "1">>
    [] token = "espresso" -> <<"a", "2", "c", "c", "6", "5", "a", "c">>
    [] token = "sugar" -> <<"a", "d", "a", "1", "5", "b", "d", "1">>
    [] token = "cookie" -> <<"2", "d", "c", "c", "d", "1", "a", "b">>
    [] token = "tazza" -> <<"5", "b", "7", "e", "2", "7", "d", "e">>
    [] token = "add" -> <<"3", "4", "e", "c", "7", "8", "f", "c">>
    [] token = "mix" -> <<"d", "a", "3", "8", "6", "e", "6", "2">>
    [] token = "heat" -> <<"5", "d", "6", "e", "b", "4", "f", "1">>
    [] token = "transfer" -> <<"8", "4", "a", "0", "f", "3", "4", "5">>
    [] token = "prepare" -> <<"0", "e", "e", "6", "3", "c", "c", "e">>
    [] token = "rest" -> <<"6", "5", "e", "8", "8", "0", "0", "b">>
    [] token = "equipmentsetting" -> <<"0", "4", "3", "8", "2", "5", "b", "e">>
    [] token = "preheat" -> <<"f", "7", "b", "d", "4", "6", "d", "d">>
    [] token = "0" -> <<"c", "f", "c", "d", "2", "0", "8", "4">>
    [] token = "1" -> <<"c", "4", "c", "a", "4", "2", "3", "8">>
    [] token = "2" -> <<"c", "8", "1", "e", "7", "2", "8", "d">>
    [] token = "3" -> <<"e", "c", "c", "b", "c", "8", "7", "e">>
    [] token = "4" -> <<"a", "8", "7", "f", "f", "6", "7", "9">>
    [] token = "5" -> <<"e", "4", "d", "a", "3", "b", "7", "f">>
    [] token = "color" -> <<"7", "0", "d", "d", "a", "5", "d", "f">>
    [] token = "consistency" -> <<"6", "a", "e", "8", "e", "6", "2", "4">>
    [] token = "smell" -> <<"d", "9", "3", "8", "a", "d", "5", "c">>
    [] token = "taste" -> <<"c", "a", "d", "1", "c", "0", "6", "8">>
    [] token = "texture" -> <<"6", "d", "7", "8", "8", "f", "c", "b">>
    [] token = "golden brown" -> <<"7", "1", "5", "7", "3", "f", "e", "1">>
    [] token = "smells sweet" -> <<"5", "9", "2", "b", "3", "2", "0", "c">>
    [] token = "chop" -> <<"c", "5", "c", "2", "d", "f", "7", "9">>
    [] token = "boiling" -> <<"b", "c", "6", "4", "1", "3", "2", "c">>
    [] token = "if too dry" -> <<"6", "b", "3", "d", "3", "1", "2", "c">>
    [] token = "add 2 tbsp of water" -> <<"8", "f", "a", "2", "3", "7", "e", "b">>
    [] token = "until thick" -> <<"6", "b", "0", "d", "f", "f", "2", "b">>
    [] token = "until smooth" -> <<"d", "7", "1", "d", "e", "e", "b", "6">>
    [] token = "nan" -> <<"a", "3", "d", "2", "d", "e", "7", "6">>
    [] token = "" -> <<"d", "4", "1", "d", "8", "c", "d", "9">>

\* property access on a value: undefined when the property is missing
Get(v, field) == IF field \in DOMAIN v THEN v[field] ELSE Undefined

(***************************************************************************)
(* Entities and measurements (entities.js, measurement.js, enums.js).      *)
(***************************************************************************)
Ingredient(name, amount, unit) ==
  [t |-> "object", type |-> Str("ingredient"), name |-> name, amount |-> amount, unit |-> unit]

Container(name, material, volume) ==
  [t |-> "object", type |-> Str("container"), name |-> name, material |-> material,
   volume |-> volume]

Tool(name) == [t |-> "object", type |-> Str("tool"), name |-> name]

Appliance(name) == [t |-> "object", type |-> Str("appliance"), name |-> name]

Duration(value, unit) == [t |-> "object", value |-> value, unit |-> unit]

minutes(value) == Duration(value, Str("minutes"))

Temperature(value, unit) == [t |-> "object", value |-> value, unit |-> unit]

StoveHeat(key) ==
  CASE key = "LOW" -> Temperature(Num(1), Str("level"))
    [] key = "MEDIUM_LOW" -> Temperature(Num(2), Str("level"))
    [] key = "MEDIUM" -> Temperature(Num(3), Str("level"))
    [] key = "MEDIUM_HIGH" -> Temperature(Num(4), Str("level"))
    [] key = "HIGH" -> Temperature(Num(5), Str("level"))
    [] OTHER -> Undefined

ActionType ==
  [ADD |-> Str("add"), MIX |-> Str("mix"), HEAT |-> Str("heat"),
   TRANSFER |-> Str("transfer"), PREPARE |-> Str("prepare"), REST |-> Str("rest"),
   EQUIPMENT_SETTING |-> Str("equipmentSetting"), PREHEAT |-> Str("preheat")]

Cue ==
  [COLOR |-> Str("color"), CONSISTENCY |-> Str("consistency"), SMELL |-> Str("smell"),
   TASTE |-> Str("taste"), TEXTURE |-> Str("texture")]

(***************************************************************************)
(* RecipeStep: the builder.  Each operator gives the step after the call.  *)
(***************************************************************************)
NewRecipeStep ==
  [actions |-> <<>>, currentIngredients |-> <<>>, currentContainer |-> Null,
   threads |-> <<>>, cues |-> <<>>, adjustments |-> <<>>, sensoryChecks |-> <<>>]

\* an action object; the properties a builder method does not set are absent
Action(type) ==
  [t |-> "object", type |-> type, ingredient |-> Undefined, container |-> Undefined,
   temperature |-> Undefined, duration |-> Undefined, from |-> Undefined,
   to |-> Undefined, technique |-> Undefined, condition |-> Undefined,
   equipment |-> Undefined, setting |-> Undefined, appliance |-> Undefined,
   targetTemperature |-> Undefined]

Array(items) == [t |-> "array", items |-> items]

add(step, ingredients) ==
  [step EXCEPT !.currentIngredients =
     IF ingredients.t = "array" THEN ingredients.items ELSE <<ingredients>>]

to(step, container) ==
  [step EXCEPT
     !.actions = step.actions \o
       [i \in 1..Len(step.currentIngredients) |->
          [Action(ActionType.ADD) EXCEPT !.ingredient = step.currentIngredients[i],
                                         !.container = container]],
     !.currentContainer = container]

mix(step) ==
  [step EXCEPT !.actions =
     Append(step.actions, [Action(ActionType.MIX) EXCEPT !.container = step.currentContainer])]

\* String.prototype.toUpperCase on the names of the stove heat levels
ToUpperCase(s) ==
  CASE s = "low" -> "LOW"
    [] s = "medium" -> "MEDIUM"
    [] s = "high" -> "HIGH"
    [] OTHER -> s

heat(step, temperature) ==
  LET resolved ==
        IF temperature.t = "string"
        THEN IF Truthy(StoveHeat(ToUpperCase(temperature.s)))
             THEN StoveHeat(ToUpperCase(temperature.s)) ELSE temperature
        ELSE temperature
  IN [step EXCEPT !.actions =
        Append(step.actions, [Action(ActionType.HEAT) EXCEPT
                                !.container = step.currentContainer,
                                !.temperature = resolved])]

\* for that sets the duration of every action of the step
forEveryAction(step, duration) ==
  IF step.actions = <<>> THEN [step |-> step, out |-> TypeError]
  ELSE [step |-> [step EXCEPT !.actions =
                    [i \in 1..Len(step.actions) |->
                       [step.actions[i] EXCEPT !.duration = duration]]],
        out |-> Undefined]

\* for(duration): sets the duration of the last action; without an action
\* the assignment to a property of undefined throws
for(step, duration) ==
  IF step.actions = <<>> THEN [step |-> step, out |-> TypeError]
  ELSE [step |-> [step EXCEPT !.actions[Len(step.actions)].duration = duration],
        out |-> Undefined]

\* transfer that leaves the current container as it was
transferKeeping(step, toContainer) ==
  [step EXCEPT
     !.actions = Append(step.actions,
                        [Action(ActionType.TRANSFER) EXCEPT !.from = step.currentContainer,
                                                            !.to = toContainer])]

\* transfer(toContainer): the action records the container left behind
transfer(step, toContainer) ==
  [step EXCEPT
     !.actions = Append(step.actions,
                        [Action(ActionType.TRANSFER) EXCEPT !.from = step.currentContainer,
                                                            !.to = toContainer]),
     !.currentContainer = toContainer]

\* prepare(...techniques): one action for each technique, each on the first
\* of the current ingredients (undefined when there is none)
prepare(step, techniques) ==
  [step EXCEPT !.actions = step.actions \o
     [i \in 1..Len(techniques) |->
        [Action(ActionType.PREPARE) EXCEPT
           !.technique = techniques[i],
           !.ingredient = IF step.currentIngredients = <<>> THEN Undefined
                          ELSE step.currentIngredients[1]]]]

setEquipment(step, equipment, setting) ==
  [step EXCEPT !.actions =
     Append(step.actions, [Action(ActionType.EQUIPMENT_SETTING) EXCEPT
                             !.equipment = equipment, !.setting = setting])]

rest(step, duration) ==
  [step EXCEPT !.actions =
     Append(step.actions, [Action(ActionType.REST) EXCEPT !.duration = duration])]

preheat(step, appliance, temperature) ==
  [step EXCEPT !.actions =
     Append(step.actions, [Action(ActionType.PREHEAT) EXCEPT
                             !.appliance = appliance, !.temperature = temperature])]

cookToTemperature(step, targetTemperature) ==
  [step EXCEPT !.actions =
     Append(step.actions, [Action(ActionType.HEAT) EXCEPT
                             !.targetTemperature = targetTemperature])]

\* untilCondition(condition): sets the condition of the last action; without
\* an action the assignment to a property of undefined throws
untilCondition(step, condition) ==
  IF step.actions = <<>> THEN [step |-> step, out |-> TypeError]
  ELSE [step |-> [step EXCEPT !.actions[Len(step.actions)].condition = condition],
        out |-> Undefined]

untilCue(step, cueType, description) ==
  [step EXCEPT !.cues = Append(step.cues, [t |-> "object", type |-> cueType, description |-> description])]

\* parallel(callback): the step the callback has built from a new
\* RecipeStep is pushed on the threads
parallel(step, parallelStep) ==
  [step EXCEPT !.threads = Append(step.threads, parallelStep)]

adjust(step, condition, action) ==
  [step EXCEPT !.adjustments =
     Append(step.adjustments, [t |-> "object", condition |-> condition, action |-> action])]

checkSensory(step, feedbackType, description, adjustment) ==
  [step EXCEPT !.sensoryChecks =
     Append(step.sensoryChecks,
            [t |-> "object", type |-> feedbackType, description |-> description,
             adjustment |-> adjustment])]

(***************************************************************************)
(* Recipe: the constructor and the hashing.                                *)
(***************************************************************************)
Opt(options, field, default) == IF field \in DOMAIN options THEN options[field] ELSE default

Recipe(name, options) ==
  [name |-> name,
   ingredients |-> Opt(options, "ingredients", <<>>),
   tools |-> Opt(options, "tools", <<>>),
   appliances |-> Opt(options, "appliances", <<>>),
   steps |-> Opt(options, "steps", <<>>),
   servings |-> Opt(options, "servings", Num(1)),
   difficulty |-> Opt(options, "difficulty", Str("medium")),
   estimatedTime |-> Opt(options, "estimatedTime", Null),
   nutritionInfo |-> Opt(options, "nutritionInfo", Null),
   miseEnPlace |-> Opt(options, "miseEnPlace", <<>>),
   servingSuggestions |-> Opt(options, "servingSuggestions", <<>>),
   substitutions |-> <<>>,
   tags |-> Opt(options, "tags", <<>>),
   hash |-> Null]

\* [_hashAttribute] without the test for undefined and null: the empty
\* token for a value that is missing
hashAttributeUntested(value) ==
  IF value.t # "undefined" /\ value.t # "null"
  THEN <<ToLowerCase(ToStringJS(value))>>
  ELSE <<"">>

\* [_hashAttribute]: the token a value contributes, none for undefined and null
hashAttribute(value) ==
  IF value.t # "undefined" /\ value.t # "null"
  THEN <<ToLowerCase(ToStringJS(value))>>
  ELSE <<>>

\* the tokens of an action with its condition hashed as well
ActionTokensAndCondition(action) ==
  hashAttribute(action.type)
    \o (IF Truthy(action.ingredient) THEN hashAttribute(Get(action.ingredient, "name")) ELSE <<>>)
    \o (IF Truthy(action.container) THEN hashAttribute(Get(action.container, "name")) ELSE <<>>)
    \o (IF Truthy(action.temperature) THEN hashAttribute(Get(action.temperature, "value")) ELSE <<>>)
    \o (IF Truthy(action.duration) THEN hashAttribute(Get(action.duration, "value")) ELSE <<>>)
    \o hashAttribute(action.condition)

\* [_hashStep]: the tokens of the actions of a step
ActionTokens(action) ==
  hashAttribute(action.type)
    \o (IF Truthy(action.ingredient) THEN hashAttribute(Get(action.ingredient, "name")) ELSE <<>>)
    \o (IF Truthy(action.container) THEN hashAttribute(Get(action.container, "name")) ELSE <<>>)
    \o (IF Truthy(action.temperature) THEN hashAttribute(Get(action.temperature, "value")) ELSE <<>>)
    \o (IF Truthy(action.duration) THEN hashAttribute(Get(action.duration, "value")) ELSE <<>>)

RECURSIVE hashStep(_)

\* [_hashStep] with the adjustments hashed as well
hashStepAndAdjustments(step) ==
  Flatten([i \in 1..Len(step.actions) |-> ActionTokens(step.actions[i])])
    \o Flatten([i \in 1..Len(step.cues) |->
                  hashAttribute(step.cues[i].type) \o hashAttribute(step.cues[i].description)])
    \o Flatten([i \in 1..Len(step.sensoryChecks) |->
                  hashAttribute(step.sensoryChecks[i].type)
                    \o hashAttribute(step.sensoryChecks[i].description)
                    \o hashAttribute(step.sensoryChecks[i].adjustment)])
    \o Flatten([i \in 1..Len(step.adjustments) |->
                  hashAttribute(step.adjustments[i].condition)
                    \o hashAttribute(step.adjustments[i].action)])
    \o Flatten([i \in 1..Len(step.threads) |-> hashStep(step.threads[i])])

\* [_hashStep] without the recursion on the threads
hashStepOwn(step) ==
  Flatten([i \in 1..Len(step.actions) |-> ActionTokens(step.actions[i])])
    \o Flatten([i \in 1..Len(step.cues) |->
                  hashAttribute(step.cues[i].type) \o hashAttribute(step.cues[i].description)])
    \o Flatten([i \in 1..Len(step.sensoryChecks) |->
                  hashAttribute(step.sensoryChecks[i].type)
                    \o hashAttribute(step.sensoryChecks[i].description)])

\* [_hashStep]: the tokens of a step, its own first and then its threads
hashStep(step) ==
  Flatten([i \in 1..Len(step.actions) |-> ActionTokens(step.actions[i])])
    \o Flatten([i \in 1..Len(step.cues) |->
                  hashAttribute(step.cues[i].type) \o hashAttribute(step.cues[i].description)])
    \o Flatten([i \in 1..Len(step.sensoryChecks) |->
                  hashAttribute(step.sensoryChecks[i].type)
                    \o hashAttribute(step.sensoryChecks[i].description)])
    \o Flatten([i \in 1..Len(step.threads) |-> hashStep(step.threads[i])])

\* the ingredient tokens with the amount hashed after each name
IngredientTokensAndAmounts(recipe) ==
  Flatten([i \in 1..Len(recipe.ingredients) |->
             <<ToLowerCase(recipe.ingredients[i].name.s),
               ToStringJS(recipe.ingredients[i].amount)>>])

\* cook: the tokens of the ingredients, ingredient.name.toLowerCase()
IngredientTokens(recipe) ==
  Strict([i \in 1..Len(recipe.ingredients) |-> ToLowerCase(recipe.ingredients[i].name.s)])

\* parseInt(hex, 16) % numBuckets; -1 stands for NaN (numBuckets is 0)
RECURSIVE ModHex(_, _)
ModHex(hex, n) ==
  IF hex = <<>> THEN 0
  ELSE (16 * ModHex(SubSeq(hex, 1, Len(hex) - 1), n) + HexValue[hex[Len(hex)]]) % n

BucketIndex(token, numBuckets) ==
  IF numBuckets = 0 THEN -1 ELSE ModHex(Md5Prefix(token), numBuckets)

\* the buckets with every token moved on by its position in the sequence
FillBucketsByPosition(tokens, numBuckets) ==
  Strict([b \in 1..numBuckets |->
            Cardinality({i \in 1..Len(tokens) :
                           (BucketIndex(tokens[i], numBuckets) + i) % numBuckets = b - 1})])

\* new Array(numBuckets).fill(0) after buckets[bucketIndex]++ for every token
\* (counted token by token: the increments of one token all fall in its bucket)
FillBuckets(tokens, numBuckets) ==
  LET distinct == {tokens[i] : i \in 1..Len(tokens)}
      tally == {<<d, BucketIndex(d, numBuckets),
                  Cardinality({i \in 1..Len(tokens) : tokens[i] = d})>> : d \in distinct}
  IN Strict([b \in 1..numBuckets |-> SumSet({<<p[1], p[3]>> : p \in {q \in tally : q[2] = b - 1}})])

\* new Array(n) accepts the integers from 0 on
IsArrayLength(v) == v.t = "number" /\ "n" \in DOMAIN v /\ v.n >= 0

\* cook without the early return of the cached hash
cookEveryTime(recipe, numBuckets) ==
  IF ~IsArrayLength(numBuckets) THEN [hash |-> recipe.hash, out |-> RangeError]
  ELSE IF \E i \in 1..Len(recipe.ingredients) : Get(recipe.ingredients[i], "name").t # "string"
  THEN [hash |-> recipe.hash, out |-> TypeError]
  ELSE
    LET tokens == IngredientTokens(recipe)
                    \o Flatten([i \in 1..Len(recipe.steps) |-> hashStep(recipe.steps[i])])
        hash == Text(EncodeBuckets(FillBuckets(tokens, numBuckets.n)))
    IN [hash |-> hash, out |-> hash]

\* cook(numBuckets): the hash field after the call and the value returned
\* or the error thrown
cook(recipe, numBuckets) ==
  IF Truthy(recipe.hash) THEN [hash |-> recipe.hash, out |-> recipe.hash]
  ELSE IF ~IsArrayLength(numBuckets) THEN [hash |-> recipe.hash, out |-> RangeError]
  ELSE IF \E i \in 1..Len(recipe.ingredients) : Get(recipe.ingredients[i], "name").t # "string"
  THEN [hash |-> recipe.hash, out |-> TypeError]
  ELSE
    LET tokens == IngredientTokens(recipe)
                    \o Flatten([i \in 1..Len(recipe.steps) |-> hashStep(recipe.steps[i])])
        hash == Text(EncodeBuckets(FillBuckets(tokens, numBuckets.n)))
    IN [hash |-> hash, out |-> hash]

\* the number 1 - distance / (16 * totalBuckets), kept as its two operands;
\* with totalBuckets = 0 it is NaN
Similarity(distance, totalBuckets) ==
  [t |-> "number", distance |-> distance, totalBuckets |-> totalBuckets]

\* the distance loop without Math.abs
SignedDistance(thisHash, otherHash) ==
  SumSeq(Strict([k \in 1..(Len(thisHash) \div 2) |->
                   ParseInt16(SubSeq(thisHash, 2 * k - 1, 2 * k))
                     - ParseInt16(SubSeq(otherHash, 2 * k - 1, 2 * k))]))

\* compareTo: the distance loop over the two hex texts of equal length
Distance(thisHash, otherHash) ==
  SumSeq(Strict([k \in 1..(Len(thisHash) \div 2) |->
                   Abs(ParseInt16(SubSeq(thisHash, 2 * k - 1, 2 * k))
                       - ParseInt16(SubSeq(otherHash, 2 * k - 1, 2 * k)))]))

Ref(r) == [t |-> "object", class |-> "Recipe", ref |-> r]

DefaultBuckets == 256

\* compareTo hashing every recipe there is, not only its two operands
compareToCookingAll(rs, self, other) ==
  LET c1 == cook(rs[self], Num(DefaultBuckets))
      d1 == decompressHash(c1.out)
      isRecipe == "ref" \in DOMAIN other
      c2 == IF isRecipe THEN cook(rs[other.ref], Num(DefaultBuckets))
            ELSE [hash |-> Null, out |-> other]
      d2 == decompressHash(c2.out)
      all == [r \in DOMAIN rs |-> [rs[r] EXCEPT !.hash = cook(rs[r], Num(DefaultBuckets)).hash]]
  IN IF c1.out.t = "error" THEN [recipes |-> all, out |-> c1.out]
     ELSE IF ~d1.ok THEN [recipes |-> all, out |-> DecodeError]
     ELSE IF c2.out.t = "error" THEN [recipes |-> all, out |-> c2.out]
     ELSE IF ~d2.ok THEN [recipes |-> all, out |-> DecodeError]
     ELSE IF Len(d1.hex) # Len(d2.hex) THEN [recipes |-> all, out |-> LengthMismatchError]
     ELSE [recipes |-> all,
           out |-> Similarity(Distance(d1.hex, d2.hex), Len(d1.hex) \div 2)]

\* compareTo(other) called on rs[self]: the recipes after the call and the
\* value returned or the error thrown
compareTo(rs, self, other) ==
  LET c1 == cook(rs[self], Num(DefaultBuckets))
      rs1 == [rs EXCEPT ![self].hash = c1.hash]
      d1 == decompressHash(c1.out)
      isRecipe == "ref" \in DOMAIN other
      c2 == IF isRecipe THEN cook(rs1[other.ref], Num(DefaultBuckets))
            ELSE [hash |-> Null, out |-> other]
      rs2 == IF isRecipe THEN [rs1 EXCEPT ![other.ref].hash = c2.hash] ELSE rs1
      d2 == decompressHash(c2.out)
  IN IF c1.out.t = "error" THEN [recipes |-> rs1, out |-> c1.out]
     ELSE IF ~d1.ok THEN [recipes |-> rs1, out |-> DecodeError]
     ELSE IF c2.out.t = "error" THEN [recipes |-> rs2, out |-> c2.out]
     ELSE IF ~d2.ok THEN [recipes |-> rs2, out |-> DecodeError]
     ELSE IF Len(d1.hex) # Len(d2.hex) THEN [recipes |-> rs2, out |-> LengthMismatchError]
     ELSE [recipes |-> rs2,
           out |-> Similarity(Distance(d1.hex, d2.hex), Len(d1.hex) \div 2)]

\* scale(factor): every ingredient copied with its amount multiplied
Times(v, factor) == IF v.t = "number" /\ "n" \in DOMAIN v THEN Num(v.n * factor) ELSE v

scale(recipe, factor) ==
  [recipe EXCEPT
     !.ingredients = [i \in 1..Len(recipe.ingredients) |->
                        [recipe.ingredients[i] EXCEPT !.amount = Times(@, factor)]],
     !.servings = Times(@, factor)]

\* createStep(ingredients): a new step with the ingredients added is pushed
createStep(recipe, ingredients) ==
  [recipe EXCEPT !.steps = Append(@, add(NewRecipeStep, ingredients))]

(***************************************************************************)
(* Serialization: Recipe.toJSON and Recipe.fromJSON.  The JSON text is     *)
(* kept as the data JSON.parse reads back from it: JSON.stringify writes   *)
(* no property whose value is undefined, and writes null for NaN and for   *)
(* an undefined element of an array.                                       *)
(***************************************************************************)
RECURSIVE JsonValue(_)

\* an element of an array, as written and read back
JsonElement(v) == IF v.t = "undefined" THEN Null ELSE JsonValue(v)

\* the value of a property, as written and read back; a property that is
\* not written reads back as undefined
JsonValue(v) ==
  IF v.t = "object"
  THEN [f \in DOMAIN v |-> IF f = "t" THEN "object" ELSE JsonValue(v[f])]
  ELSE IF v.t = "array"
  THEN Array(Strict([i \in 1..Len(v.items) |-> JsonElement(v.items[i])]))
  ELSE IF v = NaN THEN Null
  ELSE v

JsonArray(items) == Strict([i \in 1..Len(items) |-> JsonElement(items[i])])

\* RecipeStep.toJSON: the object with the five lists of the step
RECURSIVE stepToJSON(_)
stepToJSON(step) ==
  [actions |-> step.actions,
   threads |-> Strict([i \in 1..Len(step.threads) |-> stepToJSON(step.threads[i])]),
   cues |-> step.cues,
   adjustments |-> step.adjustments,
   sensoryChecks |-> step.sensoryChecks]

\* the object of a step, as written and read back
RECURSIVE JsonStep(_)
JsonStep(object) ==
  [actions |-> JsonArray(object.actions),
   threads |-> Strict([i \in 1..Len(object.threads) |-> JsonStep(object.threads[i])]),
   cues |-> JsonArray(object.cues),
   adjustments |-> JsonArray(object.adjustments),
   sensoryChecks |-> JsonArray(object.sensoryChecks)]

\* Recipe.toJSON: the JSON text of the recipe; the hash is not part of it
toJSON(recipe) ==
  [t |-> "string",
   json |-> [name |-> JsonValue(recipe.name),
             ingredients |-> JsonArray(recipe.ingredients),
             tools |-> JsonArray(recipe.tools),
             appliances |-> JsonArray(recipe.appliances),
             steps |-> Strict([i \in 1..Len(recipe.steps) |->
                                 JsonStep(stepToJSON(recipe.steps[i]))]),
             servings |-> JsonValue(recipe.servings),
             difficulty |-> JsonValue(recipe.difficulty),
             estimatedTime |-> JsonValue(recipe.estimatedTime),
             nutritionInfo |-> JsonValue(recipe.nutritionInfo),
             miseEnPlace |-> JsonArray(recipe.miseEnPlace),
             servingSuggestions |-> JsonArray(recipe.servingSuggestions),
             substitutions |-> JsonArray(recipe.substitutions),
             tags |-> JsonArray(recipe.tags)]]

\* RecipeStep.fromJSON: a new step given the five lists
RECURSIVE stepFromJSON(_)
stepFromJSON(json) ==
  [NewRecipeStep EXCEPT
     !.actions = json.actions,
     !.threads = Strict([i \in 1..Len(json.threads) |-> stepFromJSON(json.threads[i])]),
     !.cues = json.cues,
     !.adjustments = json.adjustments,
     !.sensoryChecks = json.sensoryChecks]

\* Recipe.fromJSON: a new recipe constructed from the data of the text
fromJSON(json) ==
  LET data == json.json
  IN [Recipe(data.name,
             [ingredients |-> data.ingredients,
              tools |-> data.tools,
              appliances |-> data.appliances,
              steps |-> Strict([i \in 1..Len(data.steps) |-> stepFromJSON(data.steps[i])]),
              servings |-> data.servings,
              difficulty |-> data.difficulty,
              estimatedTime |-> data.estimatedTime,
              nutritionInfo |-> data.nutritionInfo,
              miseEnPlace |-> data.miseEnPlace,
              servingSuggestions |-> data.servingSuggestions,
              tags |-> data.tags])
        EXCEPT !.substitutions = data.substitutions]

(***************************************************************************)
(* The recipes of the examples (examples/latte_caffe.js and                *)
(* examples/latte_biscotti.js) and further constructed recipes.            *)
(***************************************************************************)
tazza == Container(Str("Tazza"), Str("ceramic"), Num(1))

latte == Ingredient(Str("Latte"), Num(1), Str("cup"))

espresso == Ingredient(Str("Espresso"), Num(1), Str("shot"))

sugar == Ingredient(Str("Sugar"), Num(1), Str("tablespoon"))

cookie == Ingredient(Str("Cookie"), Num(1), Str("piece"))

spoon == Tool(Str("Spoon"))

\* add(latte, espresso, sugar) binds only its first argument
step1 == mix(to(add(NewRecipeStep, latte), tazza))

\* Measurement.Temperature.MEDIUM is not defined: heat(undefined)
step2 == for(heat(NewRecipeStep, Undefined), minutes(Num(1))).step

step3 == to(add(NewRecipeStep, cookie), tazza)

LatteCaffe ==
  Recipe(Str("Latte Caffe"),
         [ingredients |-> <<latte, espresso, sugar>>, tools |-> <<spoon>>,
          steps |-> <<step1, step2>>, servings |-> Num(1),
          difficulty |-> Str("very easy"), estimatedTime |-> minutes(Num(3)),
          tags |-> <<Str("beverage"), Str("Italian"), Str("breakfast")>>])

LatteBiscotti ==
  Recipe(Str("Latte Biscotti"),
         [ingredients |-> <<latte, espresso, sugar>>, tools |-> <<spoon>>,
          steps |-> <<step1, step2, step3>>, servings |-> Num(1),
          difficulty |-> Str("very easy"), estimatedTime |-> minutes(Num(3)),
          tags |-> <<Str("beverage"), Str("Italian"), Str("breakfast")>>])

\* new Recipe('Bare'): no ingredient and no step
Bare == Recipe(Str("Bare"), [ingredients |-> <<>>])

\* the ingredients and steps of Latte Caffe under another name, for two
\* servings, with other amounts and tags
Doppio ==
  Recipe(Str("Doppio"),
         [ingredients |-> <<Ingredient(Str("Latte"), Num(2), Str("cup")),
                            Ingredient(Str("Espresso"), Num(2), Str("shot")),
                            Ingredient(Str("Sugar"), Num(2), Str("tablespoon"))>>,
          steps |-> <<step1, step2>>, servings |-> Num(2),
          tags |-> <<Str("beverage")>>])

Pool == <<latte, espresso, sugar, cookie>>

PantrySize == 17

\* a recipe with a long list of ingredients
Pantry ==
  Recipe(Str("Pantry"), [ingredients |-> [i \in 1..PantrySize |-> Pool[(i % 4) + 1]]])

BanquetSize == 512

\* a recipe whose list repeats two ingredients 256 times each
Banquet ==
  Recipe(Str("Banquet"),
         [ingredients |-> [i \in 1..BanquetSize |-> IF i % 2 = 1 THEN latte ELSE espresso]])

\* a recipe with an ingredient that has no name
Nameless ==
  Recipe(Str("Nameless"), [ingredients |-> <<Ingredient(Undefined, Num(1), Str("cup"))>>])

(***************************************************************************)
(* State.  recipes: the Recipe objects of the program, by instance.  ret:  *)
(* the last call (cook, compareTo, toJSON, fromJSON or a builder method),  *)
(* with the value it returned or the error it threw.  buckets, wire,       *)
(* decoded: a histogram taken through the codec (the encoding of cook, the *)
(* decoding of compareTo); wire is also the JSON text of a recipe between  *)
(* toJSON and fromJSON.                                                    *)
(***************************************************************************)
Instances == {"A", "B"}

NoCall == [op |-> "none", self |-> "", arg |-> Undefined, out |-> Undefined]

\* the arguments of cook: the default, other counts, and numbers that are
\* no bucket count
BucketArgs == {Num(DefaultBuckets), Num(1), Num(2), Num(0), Num(-1), Frac(3, 2)}

\* "not-base64!!"
NotBase64 == Text(<<"n", "o", "t", "-", "b", "a", "s", "e", "6", "4", "!", "!">>)

EmptyString == Text(<<>>)

\* the base64 text of the bytes of "hello", which are no gzip member
HelloBase64 == Text(<<"a", "G", "V", "s", "b", "G", "8", "=">>)

\* the first characters of a hash: a gzip member cut short
Truncated == Text(SubSeq(EncodeBuckets(<<1, 2>>), 1, 20))

\* a hash with one count altered: the check value of the trailer is wrong
Corrupted == Text([EncodeBuckets(<<1, 2>>) EXCEPT ![21] = "B"])

GarbageStrings == {NotBase64, EmptyString, HelloBase64, Truncated, Corrupted}

\* hashes made elsewhere: an empty histogram of 1 bucket and one of 2
ForeignHashes == {Text(EncodeBuckets(<<0>>)), Text(EncodeBuckets(<<3, 0>>))}

\* what compareTo can be given: a recipe, the hash a recipe has returned,
\* a string, or no value at all
Others ==
  {Ref(o) : o \in Instances}
    \cup {recipes[o].hash : o \in {i \in Instances : Truthy(recipes[i].hash)}}
    \cup GarbageStrings \cup ForeignHashes \cup {Undefined}

\* a call is made when the result of the one before has been taken
Cook(r, numBuckets) ==
  /\ ret = NoCall
  /\ LET c == cook(recipes[r], numBuckets)
     IN /\ recipes' = [recipes EXCEPT ![r].hash = c.hash]
        /\ ret' = [op |-> "cook", self |-> r, arg |-> numBuckets, out |-> c.out]
  /\ UNCHANGED <<buckets, wire, decoded>>

CompareTo(r, other) ==
  /\ ret = NoCall
  /\ LET c == compareTo(recipes, r, other)
     IN /\ recipes' = c.recipes
        /\ ret' = [op |-> "compareTo", self |-> r, arg |-> other, out |-> c.out]
  /\ UNCHANGED <<buckets, wire, decoded>>

\* the caller takes the result and goes on
Resume ==
  /\ ret # NoCall
  /\ ret' = NoCall
  /\ UNCHANGED <<recipes, buckets, wire, decoded>>

(***************************************************************************)
(* SpecCompare: two recipes as constructed, hashed and compared.           *)
(***************************************************************************)
Catalogue == {Bare, LatteCaffe, LatteBiscotti, Doppio, Pantry, Banquet, Nameless}

InitCompare ==
  /\ recipes \in [Instances -> Catalogue]
  /\ ret = NoCall
  /\ buckets = <<>>
  /\ wire = Null
  /\ decoded = Null

NextCompare ==
  \/ \E r \in Instances, numBuckets \in BucketArgs : Cook(r, numBuckets)
  \/ \E r \in Instances, other \in Others : CompareTo(r, other)
  \/ Resume

SpecCompare == InitCompare /\ [][NextCompare]_vars

(***************************************************************************)
(* Spec: two recipes in use.  Recipe A is edited through the builder and   *)
(* scaled between the calls of cook and compareTo; recipe B is hashed and  *)
(* compared as constructed.                                                *)
(***************************************************************************)
MaxSteps == 3

MaxTokens == 12

MaxServings == 2

Editable == {"A"}

\* the number of tokens cook would hash
TokenCount(recipe) ==
  Len(recipe.ingredients) + Len(Flatten([i \in 1..Len(recipe.steps) |-> hashStep(recipe.steps[i])]))

\* recipe.createStep(ingredients)
CreateStep(r, ingredients) ==
  /\ ret = NoCall
  /\ Len(recipes[r].steps) < MaxSteps
  /\ recipes' = [recipes EXCEPT ![r] = createStep(@, ingredients)]
  /\ UNCHANGED <<ret, buckets, wire, decoded>>

\* the step last pushed on the recipe
LastStep(r) == recipes[r].steps[Len(recipes[r].steps)]

\* a builder call on the step last pushed on the recipe has made it `step`
EditLastStep(r, step) ==
  /\ ret = NoCall
  /\ LET edited == [recipes[r] EXCEPT !.steps[Len(recipes[r].steps)] = step]
     IN /\ TokenCount(edited) <= MaxTokens
        /\ recipes' = [recipes EXCEPT ![r] = edited]
  /\ UNCHANGED <<ret, buckets, wire, decoded>>

StepTo(r, container) ==
  /\ recipes[r].steps # <<>>
  /\ EditLastStep(r, to(LastStep(r), container))

StepMix(r) ==
  /\ recipes[r].steps # <<>>
  /\ EditLastStep(r, mix(LastStep(r)))

\* recipe.scale(factor)
Scale(r, factor) ==
  /\ ret = NoCall
  /\ recipes[r].servings.n * factor <= MaxServings
  /\ recipes' = [recipes EXCEPT ![r] = scale(@, factor)]
  /\ UNCHANGED <<ret, buckets, wire, decoded>>

\* the bucket counts asked of cook while the recipes are in use
UseBucketArgs == {Num(DefaultBuckets)}

UseOthers == {Ref(o) : o \in Instances} \cup {NotBase64}

Init ==
  /\ recipes = [i \in Instances |-> IF i = "A" THEN LatteCaffe ELSE LatteBiscotti]
  /\ ret = NoCall
  /\ buckets = <<>>
  /\ wire = Null
  /\ decoded = Null

Next ==
  \/ \E r \in Editable : CreateStep(r, cookie)
  \/ \E r \in Editable : StepTo(r, tazza)
  \/ \E r \in Editable : StepMix(r)
  \/ \E r \in Editable : Scale(r, 2)
  \/ \E r \in Instances, numBuckets \in UseBucketArgs : Cook(r, numBuckets)
  \/ \E r \in Instances, other \in UseOthers : CompareTo(r, other)
  \/ Resume

Spec == Init /\ [][Next]_vars

(***************************************************************************)
(* SpecCodec: a histogram encoded as cook encodes it and decoded as        *)
(* compareTo decodes it.                                                   *)
(***************************************************************************)
MaxCodecBuckets == 3

Counters == {0, 1, 15, 16, 255, 256}

RECURSIVE Histograms(_)
Histograms(n) ==
  IF n = 0 THEN {<<>>}
  ELSE {Append(h, c) : h \in Histograms(n - 1), c \in Counters}

InitCodec ==
  /\ buckets \in UNION {Histograms(n) : n \in 1..MaxCodecBuckets}
  /\ wire = Null
  /\ decoded = Null
  /\ recipes = [i \in Instances |-> Bare]
  /\ ret = NoCall

\* cook, lines 258-264
Encode ==
  /\ wire = Null
  /\ wire' = Text(EncodeBuckets(buckets))
  /\ UNCHANGED <<buckets, decoded, recipes, ret>>

\* compareTo, lines 275-300
Decode ==
  /\ wire # Null
  /\ decoded = Null
  /\ decoded' = IF decompressHash(wire).ok THEN Array(CountsOf(decompressHash(wire).hex))
                ELSE DecodeError
  /\ UNCHANGED <<buckets, wire, recipes, ret>>

NextCodec == Encode \/ Decode

SpecCodec == InitCodec /\ [][NextCodec]_vars

(***************************************************************************)
(* SpecTokens: recipes built with the whole builder (temperatures, cues,   *)
(* sensory checks, adjustments, parallel threads), hashed and compared.    *)
(***************************************************************************)
\* new RecipeStep().add(latte).to(tazza).heat(temperature).for(minutes(1))
warm(temperature) ==
  for(heat(to(add(NewRecipeStep, latte), tazza), temperature), minutes(Num(1))).step

Plain(ingredients, temperature) ==
  Recipe(Str("Plain"), [ingredients |-> ingredients, steps |-> <<warm(temperature)>>])

MaxThreadDepth == 2

\* a thread that nests a thread of its own down to the depth d:
\* thread.mix().untilCue(Cue.SMELL, 'smells sweet').parallel(...)
RECURSIVE Thread(_)
Thread(d) ==
  LET own == untilCue(mix(NewRecipeStep), Cue.SMELL, Str("smells sweet"))
  IN IF d <= 1 THEN own ELSE parallel(own, Thread(d - 1))

\* a step with two actions, a cue, a sensory check and two threads; with
\* `adjusted` it has an adjustment and its sensory check an adjustment text
Branching(adjusted) ==
  LET acted == mix(to(add(NewRecipeStep, espresso), tazza))
      cued == untilCue(acted, Cue.COLOR, Str("golden brown"))
      checked == checkSensory(cued, Cue.TASTE, Str("smells sweet"),
                              IF adjusted THEN Str("add 2 tbsp of water") ELSE Undefined)
      threaded == parallel(parallel(checked, Thread(MaxThreadDepth)),
                           heat(NewRecipeStep, StoveHeat("LOW")))
  IN IF adjusted THEN adjust(threaded, Str("if too dry"), Str("add 2 tbsp of water"))
     ELSE threaded

Tree(adjusted) ==
  Recipe(Str("Tree"),
         [ingredients |-> <<espresso, sugar, cookie>>,
          steps |-> <<Branching(adjusted), warm(Undefined)>>])

Reverse(s) == [i \in 1..Len(s) |-> s[Len(s) + 1 - i]]

\* the step with its actions, cues, sensory checks and threads in the
\* opposite order, and so in every thread
RECURSIVE MirrorStep(_)
MirrorStep(step) ==
  [step EXCEPT !.actions = Reverse(@), !.cues = Reverse(@), !.sensoryChecks = Reverse(@),
               !.threads = Reverse([i \in 1..Len(step.threads) |-> MirrorStep(step.threads[i])])]

\* the recipe with its ingredients and its steps in the opposite order
Mirror(recipe) ==
  [recipe EXCEPT !.ingredients = Reverse(@),
                 !.steps = Reverse([i \in 1..Len(recipe.steps) |-> MirrorStep(recipe.steps[i])])]

\* new RecipeStep().mix().untilCue(Cue.COLOR): a cue without description
Glance ==
  Recipe(Str("Glance"),
         [ingredients |-> <<latte>>,
          steps |-> <<untilCue(mix(NewRecipeStep), Cue.COLOR, Undefined)>>])

Kitchen ==
  {Plain(<<latte, cookie>>, Undefined), Plain(<<latte, cookie>>, StoveHeat("LOW")),
   Plain(<<latte, cookie>>, Str("simmer")), Plain(<<latte, cookie, sugar>>, Undefined),
   Tree(FALSE), Tree(TRUE), Mirror(Tree(FALSE)), Glance}

TokenBucketArgs == {Num(DefaultBuckets), Num(3), Num(0)}

InitTokens ==
  /\ recipes \in [Instances -> Kitchen]
  /\ ret = NoCall
  /\ buckets = <<>>
  /\ wire = Null
  /\ decoded = Null

NextTokens ==
  \/ \E r \in Instances, numBuckets \in TokenBucketArgs : Cook(r, numBuckets)
  \/ \E r \in Instances, o \in Instances : CompareTo(r, Ref(o))
  \/ Resume

SpecTokens == InitTokens /\ [][NextTokens]_vars

(***************************************************************************)
(* SpecSerial: a recipe that is scaled, hashed and written as JSON, and    *)
(* the recipe read back from the text; beside it a recipe constructed      *)
(* apart.  wire holds the JSON text between toJSON and fromJSON.           *)
(***************************************************************************)
pentola == Container(Str("Pentola"), Str("steel"), Num(2))

forno == Appliance(Str("Forno"))

\* a step that uses the builder methods whose arguments are not all hashed:
\* new RecipeStep().to(a).transfer(b).add(latte).to(tazza).prepare(technique)
\*   .setEquipment(equipment, setting).preheat(appliance, StoveHeat.LOW)
\*   .cookToTemperature(target).mix().untilCondition(condition).rest(minutes(1))
\* the twin differs in every argument that is not hashed
Elaborate(twin) ==
  LET moved == transfer(to(NewRecipeStep, IF twin THEN pentola ELSE tazza),
                        IF twin THEN tazza ELSE pentola)
      added == to(add(moved, latte), tazza)
      prepared == prepare(added, <<IF twin THEN Str("dice") ELSE Str("chop")>>)
      equipped == setEquipment(prepared, IF twin THEN spoon ELSE forno,
                               IF twin THEN Num(2) ELSE Str("fan"))
      preheated == preheat(equipped, IF twin THEN Undefined ELSE forno, StoveHeat("LOW"))
      cooked == cookToTemperature(preheated,
                                  Temperature(IF twin THEN Num(5) ELSE Num(4), Str("C")))
      mixed == untilCondition(mix(cooked),
                              IF twin THEN Str("until smooth") ELSE Str("until thick")).step
  IN rest(mixed, minutes(Num(1)))

\* two recipes with the ingredient names and the hashed step content in
\* common, and nothing else
Feast(twin) ==
  IF twin
  THEN Recipe(Str("Festa"),
              [ingredients |-> <<Ingredient(Str("Latte"), Num(2), Str("glass")),
                                 Ingredient(Str("Cookie"), Num(3), Undefined)>>,
               appliances |-> <<forno>>, steps |-> <<Elaborate(TRUE)>>,
               servings |-> Num(2), difficulty |-> Str("hard"),
               tags |-> <<Str("Italian")>>])
  ELSE Recipe(Str("Feast"),
              [ingredients |-> <<latte, cookie>>, tools |-> <<spoon>>,
               steps |-> <<Elaborate(FALSE)>>, tags |-> <<Str("breakfast")>>])

\* a recipe with a duration that is not a number: rest(minutes(NaN))
Vague ==
  Recipe(Str("Vague"), [ingredients |-> <<latte>>, steps |-> <<rest(NewRecipeStep, minutes(NaN))>>])

\* the recipes A and B start as
Shelf ==
  {<<Feast(FALSE), Feast(TRUE)>>, <<Tree(TRUE), Bare>>, <<Glance, Bare>>,
   <<Vague, Bare>>, <<Nameless, Bare>>}

SerialBucketArgs == {Num(DefaultBuckets), Num(3)}

\* text = recipe.toJSON()
ToJSON(r) ==
  /\ ret = NoCall
  /\ wire' = toJSON(recipes[r])
  /\ ret' = [op |-> "toJSON", self |-> r, arg |-> Undefined, out |-> wire']
  /\ UNCHANGED <<recipes, buckets, decoded>>

\* r = Recipe.fromJSON(text): the new recipe takes the place of r
FromJSON(r) ==
  /\ ret = NoCall
  /\ wire # Null
  /\ recipes' = [recipes EXCEPT ![r] = fromJSON(wire)]
  /\ ret' = [op |-> "fromJSON", self |-> r, arg |-> wire, out |-> Ref(r)]
  /\ UNCHANGED <<buckets, wire, decoded>>

InitSerial ==
  /\ recipes \in {[i \in Instances |-> IF i = "A" THEN p[1] ELSE p[2]] : p \in Shelf}
  /\ ret = NoCall
  /\ buckets = <<>>
  /\ wire = Null
  /\ decoded = Null

NextSerial ==
  \/ \E r \in Editable : Scale(r, 2)
  \/ \E r \in Editable : ToJSON(r)
  \/ \E r \in Instances \ Editable : FromJSON(r)
  \/ \E r \in Instances, numBuckets \in SerialBucketArgs : Cook(r, numBuckets)
  \/ Resume

SpecSerial == InitSerial /\ [][NextSerial]_vars

(***************************************************************************)
(* SpecBuilder: one RecipeStep built call by call.  The step is the step   *)
(* of recipe A; ret holds the last builder call, with the error it threw   *)
(* if it threw one.                                                        *)
(***************************************************************************)
MaxActions == 2

MaxThreads == 1

\* a call of a builder method, and the step after it with what it threw
Apply(step, call) ==
  CASE call.op = "add" -> [step |-> add(step, call.arg), out |-> Undefined]
    [] call.op = "to" -> [step |-> to(step, call.arg), out |-> Undefined]
    [] call.op = "mix" -> [step |-> mix(step), out |-> Undefined]
    [] call.op = "heat" -> [step |-> heat(step, call.arg), out |-> Undefined]
    [] call.op = "transfer" -> [step |-> transfer(step, call.arg), out |-> Undefined]
    [] call.op = "prepare" -> [step |-> prepare(step, call.arg.items), out |-> Undefined]
    [] call.op = "rest" -> [step |-> rest(step, call.arg), out |-> Undefined]
    [] call.op = "for" -> for(step, call.arg)
    [] call.op = "untilCondition" -> untilCondition(step, call.arg)

\* the calls a callback makes on the step it is given; a call that throws
\* ends the callback
RECURSIVE Run(_, _)
Run(step, calls) ==
  IF calls = <<>> THEN step
  ELSE IF Apply(step, Head(calls)).out.t = "error" THEN step
  ELSE Run(Apply(step, Head(calls)).step, Tail(calls))

\* the callbacks given to parallel: t => t.mix(), t => t.to(pentola).heat('low')
\* and t => t.transfer(pentola).mix()
Callbacks ==
  {<<[op |-> "mix", arg |-> Undefined]>>,
   <<[op |-> "to", arg |-> pentola], [op |-> "heat", arg |-> Str("low")]>>,
   <<[op |-> "transfer", arg |-> pentola], [op |-> "mix", arg |-> Undefined]>>}

Containers == {tazza, pentola}

\* a builder call on the step of recipe r
BuilderCall(r, call) ==
  /\ ret = NoCall
  /\ LET c == Apply(LastStep(r), call)
     IN /\ Len(c.step.actions) <= MaxActions
        /\ recipes' = [recipes EXCEPT ![r].steps[Len(recipes[r].steps)] = c.step]
        /\ ret' = [op |-> call.op, self |-> r, arg |-> call.arg, out |-> c.out]
  /\ UNCHANGED <<buckets, wire, decoded>>

\* step.parallel(callback): the callback builds a new step, which is pushed
Parallel(r, callback) ==
  /\ ret = NoCall
  /\ Len(LastStep(r).threads) < MaxThreads
  /\ recipes' = [recipes EXCEPT ![r].steps[Len(recipes[r].steps)] =
                   parallel(LastStep(r), Run(NewRecipeStep, callback))]
  /\ ret' = [op |-> "parallel", self |-> r, arg |-> Array(callback), out |-> Undefined]
  /\ UNCHANGED <<buckets, wire, decoded>>

\* new Recipe('Draft', {steps: [new RecipeStep()]})
Draft == Recipe(Str("Draft"), [steps |-> <<NewRecipeStep>>])

InitBuilder ==
  /\ recipes = [i \in Instances |-> IF i = "A" THEN Draft ELSE Bare]
  /\ ret = NoCall
  /\ buckets = <<>>
  /\ wire = Null
  /\ decoded = Null

NextBuilder ==
  \/ \E r \in Editable, i \in {latte, Array(<<latte, espresso>>)} :
       BuilderCall(r, [op |-> "add", arg |-> i])
  \/ \E r \in Editable, c \in Containers : BuilderCall(r, [op |-> "to", arg |-> c])
  \/ \E r \in Editable : BuilderCall(r, [op |-> "mix", arg |-> Undefined])
  \/ \E r \in Editable : BuilderCall(r, [op |-> "heat", arg |-> Str("low")])
  \/ \E r \in Editable : BuilderCall(r, [op |-> "transfer", arg |-> pentola])
  \/ \E r \in Editable : BuilderCall(r, [op |-> "prepare", arg |-> Array(<<Str("chop")>>)])
  \/ \E r \in Editable : BuilderCall(r, [op |-> "rest", arg |-> minutes(Num(1))])
  \/ \E r \in Editable, callback \in Callbacks : Parallel(r, callback)
  \/ Resume

SpecBuilder == InitBuilder /\ [][NextBuilder]_vars

(***************************************************************************)
(* SpecModifiers: a RecipeStep whose actions are given durations and       *)
(* conditions by for and untilCondition, from the step without an action   *)
(* on.                                                                     *)
(***************************************************************************)
NextModifiers ==
  \/ \E r \in Editable : BuilderCall(r, [op |-> "mix", arg |-> Undefined])
  \/ \E r \in Editable : BuilderCall(r, [op |-> "heat", arg |-> Str("low")])
  \/ \E r \in Editable, d \in {minutes(Num(1)), minutes(Num(2))} :
       BuilderCall(r, [op |-> "rest", arg |-> d])
  \/ \E r \in Editable, d \in {minutes(Num(1)), minutes(Num(2))} :
       BuilderCall(r, [op |-> "for", arg |-> d])
  \/ \E r \in Editable, c \in {Str("until thick"), Str("until smooth")} :
       BuilderCall(r, [op |-> "untilCondition", arg |-> c])
  \/ Resume

SpecModifiers == InitBuilder /\ [][NextModifiers]_vars

(***************************************************************************)
(* Properties.  A call of cook or compareTo is seen in the state after it: *)
(* ret holds the receiver, the argument and the outcome; the state before  *)
(* it is the unprimed state of the step that sets ret.                     *)
(***************************************************************************)
IsRef(v) == "ref" \in DOMAIN v

\* the number 1: no distance over a histogram that has buckets
IsOne(v) == v.t = "number" /\ IsRef(v) = FALSE /\ "distance" \in DOMAIN v
              /\ v.distance = 0 /\ v.totalBuckets > 0

\* the value is NaN: 0 / 0 in the last line of compareTo
IsNaN(v) == v.t = "number" /\ "distance" \in DOMAIN v /\ v.totalBuckets = 0

\* cook on the recipe as if newly constructed
FreshCook(recipe, numBuckets) == cook([recipe EXCEPT !.hash = Null], numBuckets).out

\* C1: a recipe compared with itself, or with the hash its own cook has
\* returned, gives exactly 1, whatever the bucket count of its hash: the
\* number compareTo returns for these operands is 1.
SelfSimilarityIsOne ==
  (/\ ret.op = "compareTo"
   /\ ret.out.t = "number"
   /\ \/ ret.arg = Ref(ret.self)
      \/ /\ Truthy(recipes[ret.self].hash)
         /\ ret.arg = recipes[ret.self].hash)
    => IsOne(ret.out)

\* C2: whenever compareTo returns a number, that number lies between 0 and
\* 1: the distance is at least 0 and at most 16 per bucket.
SimilarityInUnitInterval ==
  (ret.op = "compareTo" /\ ret.out.t = "number" /\ ~IsNaN(ret.out))
    => /\ 0 <= ret.out.distance
       /\ ret.out.distance <= 16 * ret.out.totalBuckets

\* the bucket counts that can have produced both cached hashes
SameBucketCount(r, o) ==
  {n \in {b \in BucketArgs : IsArrayLength(b)} :
     /\ FreshCook(recipes[r], n) = recipes[r].hash
     /\ FreshCook(recipes[o], n) = recipes[o].hash}

\* C3: for two recipes hashed with the same bucket count N, the distance
\* compareTo sums lies between 0 and 16 * N.
DistanceBounded ==
  (/\ ret.op = "compareTo"
   /\ IsRef(ret.arg)
   /\ ret.out.t = "number"
   /\ SameBucketCount(ret.self, ret.arg.ref) # {})
    => \A n \in SameBucketCount(ret.self, ret.arg.ref) :
         0 <= ret.out.distance /\ ret.out.distance <= 16 * n.n

\* C4: a histogram encoded and decoded again is the histogram that was
\* encoded.
CodecRoundTrip ==
  decoded # Null => decoded = Array(buckets)

\* C5: once cook has returned a hash for a recipe, the recipe keeps that
\* hash through every edit (createStep, builder calls, scale) and every
\* call, and every later cook on it returns that same hash; the recipes
\* start without a hash.
HashMemoized ==
  [][\A r \in Instances :
       Truthy(recipes[r].hash) =>
         /\ recipes'[r].hash = recipes[r].hash
         /\ (ret' # ret /\ ret'.op = "cook" /\ ret'.self = r)
              => ret'.out = recipes[r].hash]_vars

\* cook has returned the hash of the content the recipe had before an edit
StaleHashReturned ==
  /\ ret.op = "cook"
  /\ ret.self \in Editable
  /\ ret.out.t = "string"
  /\ ret.out = recipes[ret.self].hash
  /\ FreshCook(recipes[ret.self], ret.arg) # ret.out
  /\ FreshCook(recipes[ret.self], ret.arg).t = "string"

\* the names of the ingredients as written, and the step trees
SameFeatures(r1, r2) ==
  /\ Len(r1.ingredients) = Len(r2.ingredients)
  /\ \A i \in 1..Len(r1.ingredients) :
       Get(r1.ingredients[i], "name") = Get(r2.ingredients[i], "name")
  /\ r1.steps = r2.steps

\* C6: cook is deterministic: a second call gives the hash of the first,
\* and a hash newly computed for a bucket count is the hash computed for
\* that count for any recipe with the same ingredient names and the same
\* step trees.
CookDeterministic ==
  [][(ret' # ret /\ ret'.op = "cook" /\ ret'.out.t = "string") =>
       IF Truthy(recipes[ret'.self].hash)
       THEN ret'.out = recipes[ret'.self].hash
       ELSE \A o \in Instances :
              SameFeatures(recipes[o], recipes[ret'.self])
                => FreshCook(recipes[o], ret'.arg) = ret'.out]_vars

\* cook has computed for one recipe the hash the other recipe has, and the
\* two differ in name and in the amounts of their ingredients
TwinsShareHash ==
  /\ ret.op = "cook"
  /\ ret.out.t = "string"
  /\ \E o \in Instances \ {ret.self} :
       /\ recipes[o].hash = ret.out
       /\ SameFeatures(recipes[o], recipes[ret.self])
       /\ recipes[o].name # recipes[ret.self].name
       /\ recipes[o].ingredients # recipes[ret.self].ingredients
       /\ recipes[o].ingredients # <<>>

\* two calls end alike: both throw, or both return the same value
SameOutcome(o1, o2) == (o1.t = "error" /\ o2.t = "error") \/ o1 = o2

LengthErrorOnlyAcrossBucketCounts ==
  /\ (ret.op = "compareTo" /\ IsRef(ret.arg) /\ ret.out.t = "number")
       => Len(decompressHash(recipes[ret.self].hash).hex)
            = Len(decompressHash(recipes[ret.arg.ref].hash).hex)
  /\ (ret.op = "compareTo" /\ IsRef(ret.arg) /\ ret.out = LengthMismatchError)
       => SameBucketCount(ret.self, ret.arg.ref) = {}

\* C9: compareTo given a string that is not the base64 text of a gzip
\* member throws the decode error, which is not the length error.
GarbageRaisesDecodeError ==
  (ret.op = "compareTo" /\ ret.arg \in GarbageStrings)
    => ret.out = DecodeError /\ ret.out # LengthMismatchError

\* a bucket count: an integer from 1 on
IsPositiveInteger(v) == v.t = "number" /\ "n" \in DOMAIN v /\ v.n >= 1

\* C10: cook called with a bucket count that is 0, negative or not an
\* integer throws, and leaves the recipe without a hash.
InvalidBucketCountRejected ==
  (ret.op = "cook" /\ ~IsPositiveInteger(ret.arg))
    => ret.out.t = "error" /\ recipes[ret.self].hash = Null

\* C11: the hex text cook builds for N buckets has exactly 2 * N digits,
\* two for each count, so the histogram decoded from the hash has N counts.
EncodedWidth ==
  wire # Null =>
    /\ Len(HexString(buckets)) = 2 * Len(buckets)
    /\ (decoded # Null /\ decoded.t = "array") => Len(decoded.items) = Len(buckets)

\* C12: no undefined or null value makes cook fail: called with a bucket
\* count on a recipe without a hash, cook returns a hash, whatever values
\* the names of the ingredients and the fields of the actions have.
NullFieldsSkipped ==
  (ret.op = "cook" /\ IsPositiveInteger(ret.arg)) => ret.out.t = "string"

\* a value that is neither undefined nor null
Present(v) == v.t \notin {"undefined", "null"}

\* the step and the steps of its threads, each before its own threads
RECURSIVE NodesOf(_)
NodesOf(step) ==
  <<step>> \o Flatten([i \in 1..Len(step.threads) |-> NodesOf(step.threads[i])])

AllNodes(recipe) == Flatten([i \in 1..Len(recipe.steps) |-> NodesOf(recipe.steps[i])])

AllActions(recipe) ==
  LET nodes == AllNodes(recipe)
  IN Flatten([k \in 1..Len(nodes) |-> nodes[k].actions])

\* how many of the four hashed fields of an action have a value
PresentFields(action) ==
  Cardinality({f \in {<<"ingredient", "name">>, <<"container", "name">>,
                      <<"temperature", "value">>, <<"duration", "value">>} :
                 Present(Get(action[f[1]], f[2]))})

\* the counts read from a hash, as compareTo reads them
HistogramOf(hash) == CountsOf(decompressHash(hash).hex)

\* the increments by which two histograms of one length differ
Increments(h1, h2) == SumSeq(Strict([k \in 1..Len(h1) |-> Abs(h1[k] - h2[k])]))

RECURSIVE StripTemperatures(_)
StripTemperatures(step) ==
  [step EXCEPT
     !.actions = [i \in 1..Len(step.actions) |->
                    [step.actions[i] EXCEPT !.temperature = Undefined]],
     !.threads = [i \in 1..Len(step.threads) |-> StripTemperatures(step.threads[i])]]

Temperatures(recipe) ==
  LET actions == AllActions(recipe)
  IN Cardinality({k \in 1..Len(actions) : Present(actions[k].temperature)})

\* r1 is r2 with a temperature on one action that has none in r2
OneTemperatureMore(r1, r2) ==
  /\ Temperatures(r1) = 1
  /\ Temperatures(r2) = 0
  /\ [r1 EXCEPT !.hash = Null,
                !.steps = [i \in 1..Len(r1.steps) |-> StripTemperatures(r1.steps[i])]]
       = [r2 EXCEPT !.hash = Null]

\* C13: an action gives one token for its type and one for each of its
\* hashed fields that has a value; and of two recipes alike but for the
\* temperature of one action, the histograms differ by one increment.
TemperatureIsOneToken ==
  (ret.op = "cook" /\ IsPositiveInteger(ret.arg)) =>
    LET actions == AllActions(recipes[ret.self])
    IN /\ \A k \in 1..Len(actions) :
            Len(ActionTokens(actions[k])) = 1 + PresentFields(actions[k])
       /\ \A o \in Instances :
            OneTemperatureMore(recipes[ret.self], recipes[o]) =>
              Increments(HistogramOf(FreshCook(recipes[ret.self], ret.arg)),
                         HistogramOf(FreshCook(recipes[o], ret.arg))) = 1

\* the tokens of one step of the tree: its actions, its cues, its checks
OwnTokens(node) ==
  Flatten([i \in 1..Len(node.actions) |-> ActionTokens(node.actions[i])])
    \o Flatten([i \in 1..Len(node.cues) |->
                  hashAttribute(node.cues[i].type) \o hashAttribute(node.cues[i].description)])
    \o Flatten([i \in 1..Len(node.sensoryChecks) |->
                  hashAttribute(node.sensoryChecks[i].type)
                    \o hashAttribute(node.sensoryChecks[i].description)])

\* the tokens of the steps of a tree, step by step as NodesOf lists them
TreeTokens(nodes) == Flatten([k \in 1..Len(nodes) |-> OwnTokens(nodes[k])])

\* C14: the tokens hashed for a step are its own tokens followed by those
\* of its threads, each thread with its own threads before the next one,
\* all before the next step of the recipe; the histogram of the recipe
\* counts the tokens of every step of the tree.
ThreadsAreHashed ==
  (ret.op = "cook" /\ IsPositiveInteger(ret.arg)) =>
    LET recipe == recipes[ret.self]
        fresh == FreshCook(recipe, ret.arg)
    IN /\ \A i \in 1..Len(recipe.steps) :
            hashStep(recipe.steps[i]) = TreeTokens(NodesOf(recipe.steps[i]))
       /\ fresh.t = "string" =>
            HistogramOf(fresh)
              = FillBuckets(IngredientTokens(recipe) \o TreeTokens(AllNodes(recipe)),
                            ret.arg.n)

\* cook has hashed a recipe with a thread inside a thread, and its
\* histogram counts more tokens than the steps of the recipe have of
\* their own
NestedThreadsHashed ==
  /\ ret.op = "cook"
  /\ IsPositiveInteger(ret.arg)
  /\ ret.out.t = "string"
  /\ ret.out = FreshCook(recipes[ret.self], ret.arg)
  /\ LET recipe == recipes[ret.self]
     IN /\ \E i \in 1..Len(recipe.steps) :
             \E j \in 1..Len(recipe.steps[i].threads) :
               recipe.steps[i].threads[j].threads # <<>>
        /\ SumSeq(HistogramOf(ret.out))
             = Len(recipe.ingredients) + Len(TreeTokens(AllNodes(recipe)))
        /\ SumSeq(HistogramOf(ret.out))
             > Len(recipe.ingredients) + Len(TreeTokens(recipe.steps))

RECURSIVE StripAdjustments(_)
StripAdjustments(step) ==
  [step EXCEPT
     !.adjustments = <<>>,
     !.sensoryChecks = [i \in 1..Len(step.sensoryChecks) |->
                          [step.sensoryChecks[i] EXCEPT !.adjustment = Undefined]],
     !.threads = [i \in 1..Len(step.threads) |-> StripAdjustments(step.threads[i])]]

\* the two recipes differ at most in the adjustments of their steps and in
\* the adjustment texts of their sensory checks
SameButAdjustments(r1, r2) ==
  [r1 EXCEPT !.hash = Null,
             !.steps = [i \in 1..Len(r1.steps) |-> StripAdjustments(r1.steps[i])]]
    = [r2 EXCEPT !.hash = Null,
                 !.steps = [i \in 1..Len(r2.steps) |-> StripAdjustments(r2.steps[i])]]

\* C15: adjustments are not hashed: two recipes that differ only in the
\* adjustments of their steps and in the adjustment texts of their sensory
\* checks get the same hash for the same bucket count.
AdjustmentsNotHashed ==
  ret.op = "cook" =>
    \A o \in Instances :
      SameButAdjustments(recipes[ret.self], recipes[o]) =>
        FreshCook(recipes[o], ret.arg) = FreshCook(recipes[ret.self], ret.arg)

\* cook has computed for a recipe the hash of a recipe that differs from
\* it in its adjustments
AdjustedTwinHashed ==
  /\ ret.op = "cook"
  /\ ret.out.t = "string"
  /\ ret.out = FreshCook(recipes[ret.self], ret.arg)
  /\ \E o \in Instances :
       /\ SameButAdjustments(recipes[ret.self], recipes[o])
       /\ recipes[o].steps # recipes[ret.self].steps
       /\ \E i \in 1..Len(recipes[o].steps) : recipes[o].steps[i].adjustments # <<>>
       /\ recipes[o].hash = ret.out

\* the sequence without its k-th element
Without(s, k) == SubSeq(s, 1, k - 1) \o SubSeq(s, k + 1, Len(s))

\* r2 is r1 with one more ingredient
OneIngredientMore(r1, r2) ==
  \E k \in 1..Len(r2.ingredients) :
    [r2 EXCEPT !.hash = Null, !.ingredients = Without(r2.ingredients, k)]
      = [r1 EXCEPT !.hash = Null, !.ingredients = Strict(r1.ingredients)]

\* the bucket counts of SpecTokens that have produced both hashes
CookedAlike(r, o) ==
  {n \in {b \in TokenBucketArgs : IsArrayLength(b)} :
     /\ FreshCook(recipes[r], n) = recipes[r].hash
     /\ FreshCook(recipes[o], n) = recipes[o].hash}

\* C16: of two recipes hashed with the same bucket count N, one being the
\* other with one more ingredient, the histograms differ by one increment
\* and compareTo returns 1 - 1 / (16 * N), a number below 1 and not below 0.
ExtraIngredientOneIncrement ==
  (/\ ret.op = "compareTo"
   /\ IsRef(ret.arg)
   /\ \/ OneIngredientMore(recipes[ret.self], recipes[ret.arg.ref])
      \/ OneIngredientMore(recipes[ret.arg.ref], recipes[ret.self])
   /\ CookedAlike(ret.self, ret.arg.ref) # {})
    => /\ ret.out.t = "number"
       /\ ret.out.distance = 1
       /\ \A n \in CookedAlike(ret.self, ret.arg.ref) :
            n.n >= 1 /\ ret.out.totalBuckets = n.n

\* the hash of the recipe has been produced with a bucket count other
\* than the default
CookedOffDefault(recipe) ==
  /\ Truthy(recipe.hash)
  /\ FreshCook(recipe, Num(DefaultBuckets)) # recipe.hash
  /\ \E n \in {b \in BucketArgs : IsArrayLength(b)} : FreshCook(recipe, n) = recipe.hash

\* C17: a recipe that has a hash returns it from cook whatever bucket count
\* is asked; and compareTo, which asks for the default count, throws the
\* length error when a recipe hashed with another count is compared with a
\* recipe that has never been hashed.
CachedCountWins ==
  [][/\ (ret' # ret /\ ret'.op = "cook" /\ Truthy(recipes[ret'.self].hash))
          => ret'.out = recipes[ret'.self].hash
     /\ (/\ ret' # ret
         /\ ret'.op = "compareTo"
         /\ IsRef(ret'.arg)
         /\ CookedOffDefault(recipes[ret'.self])
         /\ recipes[ret'.arg.ref].hash = Null)
          => ret'.out = LengthMismatchError]_vars

\* 1 for a value, 0 for undefined and null
One(v) == IF Present(v) THEN 1 ELSE 0

ActionCount(node) ==
  SumSeq(Strict([i \in 1..Len(node.actions) |-> 1 + PresentFields(node.actions[i])]))

\* the tokens of a step of the tree, at two for each cue and each check
TwoPerCue(node) == ActionCount(node) + 2 * Len(node.cues) + 2 * Len(node.sensoryChecks)

\* the tokens of a step of the tree, at one for each type and each
\* description that has a value
OnePerValue(node) ==
  ActionCount(node)
    + SumSeq(Strict([i \in 1..Len(node.cues) |->
                       One(node.cues[i].type) + One(node.cues[i].description)]))
    + SumSeq(Strict([i \in 1..Len(node.sensoryChecks) |->
                       One(node.sensoryChecks[i].type)
                         + One(node.sensoryChecks[i].description)]))

\* C18 as stated: for a bucket count N >= 1 the counts of a newly computed
\* histogram add up to the number of ingredients plus, for every step of
\* the tree, 1 + (hashed fields with a value) per action, 2 per cue and 2
\* per sensory check.
CountsAddUpTwoPerCue ==
  (ret.op = "cook" /\ IsPositiveInteger(ret.arg)
     /\ FreshCook(recipes[ret.self], ret.arg).t = "string") =>
    LET recipe == recipes[ret.self]
        nodes == AllNodes(recipe)
    IN SumSeq(HistogramOf(FreshCook(recipe, ret.arg)))
         = Len(recipe.ingredients) + SumSeq(Strict([k \in 1..Len(nodes) |-> TwoPerCue(nodes[k])]))

\* C18 amended: for a bucket count N >= 1 every token falls in one bucket
\* 0..N-1, the histogram has N counts, and they add up to the number of
\* ingredients plus, for every step of the tree, 1 + (hashed fields with a
\* value) per action and, per cue and per sensory check, one for each of
\* type and description that has a value.
CountsAddUp ==
  (ret.op = "cook" /\ IsPositiveInteger(ret.arg)
     /\ FreshCook(recipes[ret.self], ret.arg).t = "string") =>
    LET recipe == recipes[ret.self]
        nodes == AllNodes(recipe)
        tokens == IngredientTokens(recipe) \o TreeTokens(nodes)
        histogram == HistogramOf(FreshCook(recipe, ret.arg))
    IN /\ \A k \in 1..Len(tokens) : BucketIndex(tokens[k], ret.arg.n) \in 0..(ret.arg.n - 1)
       /\ Len(histogram) = ret.arg.n
       /\ SumSeq(histogram)
            = Len(recipe.ingredients)
                + SumSeq(Strict([k \in 1..Len(nodes) |-> OnePerValue(nodes[k])]))

\* cook has hashed a recipe with a cue that has no description: its counts
\* add up to one token less than at two per cue
CueWithoutDescriptionHashed ==
  /\ ret.op = "cook"
  /\ IsPositiveInteger(ret.arg)
  /\ ret.out.t = "string"
  /\ ret.out = FreshCook(recipes[ret.self], ret.arg)
  /\ LET nodes == AllNodes(recipes[ret.self])
     IN /\ \E k \in 1..Len(nodes) :
             \E i \in 1..Len(nodes[k].cues) : ~Present(nodes[k].cues[i].description)
        /\ SumSeq(HistogramOf(ret.out))
             = Len(recipes[ret.self].ingredients)
                 + SumSeq(Strict([k \in 1..Len(nodes) |-> TwoPerCue(nodes[k])])) - 1

\* s2 holds the elements of s1 in some order
PermutedSeq(s1, s2) ==
  /\ Len(s1) = Len(s2)
  /\ \/ Len(s1) = 0
     \/ \E p \in Permutations(1..Len(s1)) : \A i \in 1..Len(s1) : s2[i] = s1[p[i]]

\* step b is step a with its actions, cues, sensory checks and threads in
\* some order, and so in every thread
RECURSIVE PermutedStep(_, _)
PermutedStep(a, b) ==
  /\ PermutedSeq(a.actions, b.actions)
  /\ PermutedSeq(a.cues, b.cues)
  /\ PermutedSeq(a.sensoryChecks, b.sensoryChecks)
  /\ a.adjustments = b.adjustments
  /\ Len(a.threads) = Len(b.threads)
  /\ \/ Len(a.threads) = 0
     \/ \E p \in Permutations(1..Len(a.threads)) :
          \A i \in 1..Len(a.threads) : PermutedStep(a.threads[p[i]], b.threads[i])

\* recipe r2 is recipe r1 with its ingredients and steps in some order
PermutedRecipe(r1, r2) ==
  /\ [r1 EXCEPT !.hash = Null, !.ingredients = <<>>, !.steps = <<>>]
       = [r2 EXCEPT !.hash = Null, !.ingredients = <<>>, !.steps = <<>>]
  /\ PermutedSeq(r1.ingredients, r2.ingredients)
  /\ Len(r1.steps) = Len(r2.steps)
  /\ \/ Len(r1.steps) = 0
     \/ \E p \in Permutations(1..Len(r1.steps)) :
          \A i \in 1..Len(r1.steps) : PermutedStep(r1.steps[p[i]], r2.steps[i])

\* C19: the hash does not depend on the order of the tokens: a recipe and
\* the same recipe with its ingredients, its steps, the actions, cues and
\* sensory checks of a step or the threads of a step in another order get
\* the same hash for the same bucket count.
OrderIndependent ==
  ret.op = "cook" =>
    \A o \in Instances :
      PermutedRecipe(recipes[ret.self], recipes[o]) =>
        FreshCook(recipes[o], ret.arg) = FreshCook(recipes[ret.self], ret.arg)

\* cook has computed for a recipe the hash of the recipe that has its
\* ingredients, steps, actions and threads in another order
PermutedTwinHashed ==
  /\ ret.op = "cook"
  /\ ret.out.t = "string"
  /\ ret.out = FreshCook(recipes[ret.self], ret.arg)
  /\ \E o \in Instances :
       /\ PermutedRecipe(recipes[ret.self], recipes[o])
       /\ recipes[o].ingredients # recipes[ret.self].ingredients
       /\ recipes[o].steps # recipes[ret.self].steps
       /\ \E i \in 1..Len(recipes[o].steps) : Len(recipes[o].steps[i].threads) > 1
       /\ recipes[o].hash = ret.out

\* the recipe apart from its hash
Content(recipe) == [recipe EXCEPT !.hash = Null]

\* C20: cook changes nothing but the hash of its recipe, and what it
\* computes depends on that recipe alone; compareTo changes nothing but
\* the hash of its recipe and the hash of the recipe it is given, and
\* given a string it changes nothing but the hash of its recipe.
OnlyHashesChange ==
  [][/\ (ret' # ret /\ ret'.op = "cook") =>
          /\ \A r \in Instances :
               /\ Content(recipes'[r]) = Content(recipes[r])
               /\ r # ret'.self => recipes'[r] = recipes[r]
          /\ (~Truthy(recipes[ret'.self].hash) /\ ret'.out.t = "string") =>
               ret'.out = FreshCook(Content(recipes[ret'.self]), ret'.arg)
     /\ (ret' # ret /\ ret'.op = "compareTo") =>
          \A r \in Instances :
            /\ Content(recipes'[r]) = Content(recipes[r])
            /\ (r # ret'.self /\ ~(IsRef(ret'.arg) /\ ret'.arg = Ref(r))) =>
                 recipes'[r] = recipes[r]]_vars

\* compareTo given a string that is no hash has thrown the decode error
\* after hashing its own recipe, and the other recipe has no hash
OnlyOwnHashSet ==
  /\ ret.op = "compareTo"
  /\ ret.arg = NotBase64
  /\ ret.out = DecodeError
  /\ Truthy(recipes[ret.self].hash)
  /\ \E o \in Instances \ {ret.self} : recipes[o].hash = Null

\* what cook reads of a step: of each action its type, the names of its
\* ingredient and container and the values of its temperature and
\* duration; of each cue and sensory check its type and description; and
\* the same of every thread
RECURSIVE HashedPart(_)
HashedPart(step) ==
  [actions |-> [i \in 1..Len(step.actions) |->
                  <<step.actions[i].type,
                    Get(step.actions[i].ingredient, "name"),
                    Get(step.actions[i].container, "name"),
                    Get(step.actions[i].temperature, "value"),
                    Get(step.actions[i].duration, "value")>>],
   cues |-> [i \in 1..Len(step.cues) |-> <<step.cues[i].type, step.cues[i].description>>],
   sensoryChecks |-> [i \in 1..Len(step.sensoryChecks) |->
                        <<step.sensoryChecks[i].type, step.sensoryChecks[i].description>>],
   threads |-> [i \in 1..Len(step.threads) |-> HashedPart(step.threads[i])]]

\* the same ingredient names and the same hashed step content
SameHashedContent(r1, r2) ==
  /\ Len(r1.ingredients) = Len(r2.ingredients)
  /\ \A i \in 1..Len(r1.ingredients) :
       Get(r1.ingredients[i], "name") = Get(r2.ingredients[i], "name")
  /\ Len(r1.steps) = Len(r2.steps)
  /\ \A i \in 1..Len(r1.steps) : HashedPart(r1.steps[i]) = HashedPart(r2.steps[i])

JsonRoundTripKeepsHash ==
  ret.op = "fromJSON" =>
    \A o \in Instances \ {ret.self} :
      (ret.arg = toJSON(recipes[o]) /\ FreshCook(recipes[o], Num(DefaultBuckets)).t = "string") =>
        /\ recipes[ret.self].hash = Null
        /\ \A n \in SerialBucketArgs :
             cook(recipes[ret.self], n).out = FreshCook(recipes[o], n)
        /\ IsOne(compareTo([recipes EXCEPT ![o] = Content(recipes[o])],
                           ret.self, Ref(o)).out)

\* the step of recipe r among the recipes rs
StepIn(rs, r) == rs[r].steps[Len(rs[r].steps)]

\* the argument of the last to or transfer among the calls, null without one
RECURSIVE LastTarget(_)
LastTarget(calls) ==
  IF calls = <<>> THEN Null
  ELSE IF calls[Len(calls)].op \in {"to", "transfer"} THEN calls[Len(calls)].arg
  ELSE LastTarget(SubSeq(calls, 1, Len(calls) - 1))

\* the step a callback has built started without a container
ThreadTracked(thread, calls) ==
  /\ thread.currentContainer = LastTarget(calls)
  /\ calls[1].op \in {"mix", "heat"} =>
       thread.actions # <<>> /\ thread.actions[1].container = Null
  /\ calls[1].op = "transfer" =>
       thread.actions # <<>> /\ thread.actions[1].from = Null

\* what a builder call has made of the step
Tracked(before, after, call) ==
  LET n == Len(before.actions)
      new == SubSeq(after.actions, n + 1, Len(after.actions))
  IN /\ Len(after.actions) >= n
     /\ SubSeq(after.actions, 1, n) = before.actions
     /\ after.currentContainer =
          IF call.op \in {"to", "transfer"} THEN call.arg ELSE before.currentContainer
     /\ call.op = "to" =>
          /\ Len(new) = Len(before.currentIngredients)
          /\ \A i \in 1..Len(new) :
               /\ new[i].type = ActionType.ADD
               /\ new[i].ingredient = before.currentIngredients[i]
               /\ new[i].container = call.arg
     /\ call.op \in {"mix", "heat"} =>
          /\ Len(new) = 1
          /\ new[1].type = (IF call.op = "mix" THEN ActionType.MIX ELSE ActionType.HEAT)
          /\ new[1].container = before.currentContainer
     /\ call.op = "transfer" =>
          /\ Len(new) = 1
          /\ new[1].type = ActionType.TRANSFER
          /\ new[1].from = before.currentContainer
          /\ new[1].to = call.arg
     /\ call.op = "parallel" =>
          /\ new = <<>>
          /\ Len(after.threads) = Len(before.threads) + 1
          /\ SubSeq(after.threads, 1, Len(before.threads)) = before.threads
          /\ ThreadTracked(after.threads[Len(after.threads)], call.arg.items)

\* C23: the step starts without a container; to and transfer make their
\* argument the current container and no other call changes it; to appends
\* one ADD action for each current ingredient, in order, with its argument
\* as container; mix and heat append one action with the current container;
\* transfer appends one action with the current container as `from` and
\* its argument as `to`; parallel leaves the container of the step alone
\* and the thread it pushes was built from a step without a container.
ContainerTracked ==
  /\ \A r \in Editable : StepIn(recipes, r).currentContainer = Null
  /\ [][(ret' # ret /\ ret'.op \in {"add", "to", "mix", "heat", "transfer", "prepare",
                                      "rest", "parallel"})
          => Tracked(StepIn(recipes, ret'.self), StepIn(recipes', ret'.self), ret')]_vars

\* parallel has pushed a thread that mixes in no container on a step whose
\* ingredients were added to one container and transferred to another
ThreadStartsWithoutContainer ==
  /\ ret.op = "parallel"
  /\ LET step == StepIn(recipes, ret.self)
     IN /\ Len(step.actions) = 2
        /\ step.actions[1].type = ActionType.ADD
        /\ step.actions[1].container = tazza
        /\ step.actions[2].type = ActionType.TRANSFER
        /\ step.actions[2].from = tazza
        /\ step.currentContainer = pentola
        /\ step.threads[1].actions[1].type = ActionType.MIX
        /\ step.threads[1].actions[1].container = Null
        /\ step.threads[1].currentContainer = Null

\* C24: for and untilCondition called on a step without an action throw
\* and leave everything as it was; called on a step with actions they set
\* the duration or the condition of the last action to their argument and
\* change nothing else: not the number of actions, not the actions before
\* the last, not another field of the last, not the rest of the step.
ModifiersSetLastActionOnly ==
  [][(ret' # ret /\ ret'.op \in {"for", "untilCondition"}) =>
       LET before == StepIn(recipes, ret'.self)
           after == StepIn(recipes', ret'.self)
           field == IF ret'.op = "for" THEN "duration" ELSE "condition"
           n == Len(before.actions)
       IN IF n = 0
          THEN ret'.out.t = "error" /\ recipes' = recipes
          ELSE /\ ret'.out.t # "error"
               /\ Len(after.actions) = n
               /\ \A i \in 1..(n - 1) : after.actions[i] = before.actions[i]
               /\ after.actions[n][field] = ret'.arg
               /\ \A f \in DOMAIN before.actions[n] \ {field} :
                    after.actions[n][f] = before.actions[n][f]
               /\ [after EXCEPT !.actions = <<>>] = [before EXCEPT !.actions = <<>>]
               /\ [recipes'[ret'.self] EXCEPT !.steps = <<>>]
                    = [recipes[ret'.self] EXCEPT !.steps = <<>>]]_vars

\* untilCondition has set the condition of the second action of a step
\* whose first action keeps the other condition and the duration it had
ConditionOnLastActionOnly ==
  /\ ret.op = "untilCondition"
  /\ ret.out.t # "error"
  /\ LET step == StepIn(recipes, ret.self)
     IN /\ Len(step.actions) = 2
        /\ step.actions[2].condition = ret.arg
        /\ Present(step.actions[1].condition)
        /\ step.actions[1].condition # ret.arg
        /\ Present(step.actions[1].duration)
        /\ step.actions[2].duration = Undefined

====
